---- MODULE Spec2Model ----
(***************************************************************************)
(* Model of elastic/core/notebook/checkpoint.py: one call of checkpoint(). *)
(* The call collects the active variable snapshots of the dependency       *)
(* graph, profiles their sizes, computes the pairwise overlaps, hands the  *)
(* three to the selector, updates the notebook's migration lists and calls *)
(* the writer (migrate).                                                   *)
(*                                                                         *)
(* A variable snapshot (VS) is an object of the graph; the model names it  *)
(* by the pair [name, version] and keeps its fields in the graph, so that  *)
(* sets and lists of VSs hold references, as in the code.                  *)
(***************************************************************************)
EXTENDS Integers, Sequences, FiniteSets

\* ------------------------------------------------------------------ bounds

\* Number of variable names the graph tracks.
MaxNames == 2

\* Longest version list of one name.
MaxVersions == 2

AllNames == <<"a", "b", "c", "d">>

Names == {AllNames[k] : k \in 1..MaxNames}

\* ------------------------------------------------------------------ values

\* A size: np.inf, or a byte count.
np_inf == [inf |-> TRUE, bytes |-> 0]

Bytes(n) == [inf |-> FALSE, bytes |-> n]

\* A string is a tuple of characters, so that Python's `in` is a search.
StrBokeh == <<"b", "o", "k", "e", "h">>

StrDataprepEda == <<"d", "a", "t", "a", "p", "r", "e", "p", ".", "e", "d", "a">>

\* needle in haystack, for two strings.
Contains(haystack, needle) ==
    \E k \in 0..(Len(haystack) - Len(needle)) :
        SubSeq(haystack, k + 1, k + Len(needle)) = needle

\* The values the session may hold: has_module is FALSE where the value has
\* no __module__ attribute (getattr's default None).
ModNumpy == <<"n", "u", "m", "p", "y">>

ModBokehIo == <<"b", "o", "k", "e", "h", ".", "i", "o">>

ModDataprepEda == StrDataprepEda \o <<".", "x">>

ModDataprep == <<"d", "a", "t", "a", "p", "r", "e", "p">>

\* The fingerprint entry of a name: (identity token, storage-region
\* identifiers, object reference); obj is "UnserializableObj" where the
\* reference is an instance of UnserializableObj.
FingerprintEntry(regions, obj) == <<"id", regions, obj>>

\* A VS by reference.
Ref(n, v) == [name |-> n, version |-> v]

\* A VS's fields.
VS(n, v, deleted, size, edge) ==
    [name |-> n, version |-> v, deleted |-> deleted, size |-> size, edge |-> edge]

\* ------------------------------------------------------------------- state

VARIABLES
    variable_snapshots,  \* graph.variable_snapshots: name -> list of VS fields
    fingerprint_dict,    \* name -> fingerprint entry, on the names it holds
    user_ns,             \* shell.user_ns: name -> live value, on the live names
    elastic_notebook,    \* the optional notebook and its migration lists
    selector,            \* the selector's fields checkpoint assigns
    pc,                  \* the position in checkpoint()
    active_vss,          \* the local set active_vss
    order,               \* the iteration order of the set active_vss
    i, j,                \* positions of the for loops in order
    overlapping_vss,     \* the local list overlapping_vss
    vss_to_migrate,      \* the local vss_to_migrate
    vss_to_recompute,    \* the local vss_to_recompute
    migrate_success,     \* the local migrate_success
    result,              \* what the call returned
    branch,              \* per name, the branch the profiling loop took
    examined,            \* the ordered pairs the overlap loop has examined
    calls,               \* how often each collaborator was invoked
    writer_args,         \* the arguments migrate() received
    failed,              \* the collaborator that raised, if any
    graph0               \* graph.variable_snapshots as the call found it

vars ==
    <<variable_snapshots, fingerprint_dict, user_ns, elastic_notebook, selector,
      pc, active_vss, order, i, j, overlapping_vss, vss_to_migrate,
      vss_to_recompute, migrate_success, result, branch, examined, calls,
      writer_args, failed, graph0>>

\* The fields of the VS a reference names.
Field(vs) == variable_snapshots[vs.name][vs.version]

AllRefs ==
    {Ref(n, v) : n \in Names, v \in 1..MaxVersions}

GraphRefs ==
    {vs \in AllRefs : vs.version <= Len(variable_snapshots[vs.name])}

\* --------------------------------------------------------- initial states

\* The names whose latest version is not deleted hold a value in the session.
LiveNames(g) == {n \in DOMAIN g : ~g[n][Len(g[n])].deleted}

\* Version lists of name n with any deleted flags. A version that is not the
\* latest was profiled at an earlier checkpoint (4 bytes); the latest was not.
VersionLists(n) ==
    UNION { { [v \in 1..len |->
                 VS(n, v, d[v], IF v < len THEN Bytes(4) ELSE Bytes(0), TRUE)]
              : d \in [1..len -> BOOLEAN] }
            : len \in 1..MaxVersions }

\* What a live variable may be: its fingerprint entry (or none), its value,
\* whether a cell produced it and the size an earlier checkpoint left.
Kinds ==
    { [fp |-> <<>>, obj |-> [has_module |-> TRUE, module |-> ModNumpy, bytes |-> 16],
       edge |-> TRUE, size |-> Bytes(0)],
      [fp |-> <<>>, obj |-> [has_module |-> TRUE, module |-> ModBokehIo, bytes |-> 24],
       edge |-> TRUE, size |-> Bytes(4)],
      [fp |-> <<FingerprintEntry({1}, "UnserializableObj")>>,
       obj |-> [has_module |-> FALSE, module |-> <<>>, bytes |-> 8],
       edge |-> TRUE, size |-> Bytes(0)],
      [fp |-> <<FingerprintEntry({1, 2}, "UnserializableObj")>>,
       obj |-> [has_module |-> TRUE, module |-> ModBokehIo, bytes |-> 24],
       edge |-> FALSE, size |-> Bytes(4)],
      [fp |-> <<FingerprintEntry({2}, "obj")>>,
       obj |-> [has_module |-> TRUE, module |-> ModBokehIo, bytes |-> 24],
       edge |-> TRUE, size |-> Bytes(0)],
      [fp |-> <<FingerprintEntry({1}, "obj")>>,
       obj |-> [has_module |-> TRUE, module |-> ModDataprepEda, bytes |-> 32],
       edge |-> TRUE, size |-> Bytes(4)],
      [fp |-> <<FingerprintEntry({2}, "obj")>>,
       obj |-> [has_module |-> TRUE, module |-> ModDataprep, bytes |-> 40],
       edge |-> TRUE, size |-> Bytes(0)],
      [fp |-> <<FingerprintEntry({1}, "obj")>>,
       obj |-> [has_module |-> TRUE, module |-> ModNumpy, bytes |-> 16],
       edge |-> TRUE, size |-> Bytes(4)],
      [fp |-> <<FingerprintEntry({1, 2}, "obj")>>,
       obj |-> [has_module |-> FALSE, module |-> <<>>, bytes |-> 8],
       edge |-> FALSE, size |-> Bytes(0)],
      [fp |-> <<FingerprintEntry({3}, "obj")>>,
       obj |-> [has_module |-> TRUE, module |-> <<>>, bytes |-> 12],
       edge |-> TRUE, size |-> np_inf] }

\* The state before the call that every initial state shares.
InitLocals ==
    /\ selector = [dependency_graph |-> "stale", active_vss |-> {},
                   overlapping_vss |-> <<>>]
    /\ pc = "start"
    /\ active_vss = {}
    /\ order = <<>>
    /\ i = 0
    /\ j = 0
    /\ overlapping_vss = <<>>
    /\ vss_to_migrate = {}
    /\ vss_to_recompute = {}
    /\ migrate_success = "unset"
    /\ result = "none"
    /\ branch = [n \in Names |-> "none"]
    /\ examined = {}
    /\ calls = [select_vss |-> 0, update_migration_lists |-> 0, migrate |-> 0]
    /\ writer_args = <<>>
    /\ failed = "none"

\* The notebook, when one is supplied, holds the lists of the previous
\* checkpoint.
Notebooks ==
    { [present |-> FALSE, vss_to_migrate |-> {}, vss_to_recompute |-> {}],
      [present |-> TRUE, vss_to_migrate |-> {Ref("a", 1)}, vss_to_recompute |-> {}] }

\* The storage region of name n alone.
RegionOf(n) == 10 + CHOOSE k \in 1..MaxNames : AllNames[k] = n

\* Graphs with a history: any version lists; every name but possibly "a" has a
\* fingerprint entry of its own storage region.
InitHistory ==
    /\ variable_snapshots \in
         {g \in [Names -> UNION {VersionLists(n) : n \in Names}] :
            \A n \in Names : g[n] \in VersionLists(n)}
    /\ \E known \in {Names, Names \ {"a"}} :
         fingerprint_dict =
           [n \in known |-> FingerprintEntry({RegionOf(n)}, "obj")]
    /\ user_ns = [n \in LiveNames(variable_snapshots) |->
                    [has_module |-> TRUE, module |-> ModNumpy, bytes |-> 16]]

\* Graphs of live variables of every kind, one version each.
InitValues ==
    \E kind \in [Names -> Kinds] :
       /\ variable_snapshots =
            [n \in Names |-> <<VS(n, 1, FALSE, kind[n].size, kind[n].edge)>>]
       /\ fingerprint_dict =
            [n \in {m \in Names : kind[m].fp # <<>>} |-> kind[n].fp[1]]
       /\ user_ns = [n \in Names |-> kind[n].obj]

Init ==
    /\ InitLocals
    /\ elastic_notebook \in Notebooks
    /\ (InitHistory \/ InitValues)
    /\ graph0 = variable_snapshots

\* ---------------------------------------------------- checkpoint(), by step

\* All orders in which a for loop may iterate over the set S.
Orders(S) ==
    {o \in [1..Cardinality(S) -> S] : \A k, l \in DOMAIN o : o[k] = o[l] => k = l}

\* ActiveVss without the test of the deleted flag.
ActiveVssIgnoringDeleted(g) ==
    {Ref(n, Len(g[n])) : n \in DOMAIN g}

\* The active VSs of graph g: the latest version of each name, unless deleted.
ActiveVss(g) ==
    {Ref(n, Len(g[n])) : n \in {m \in DOMAIN g : ~g[m][Len(g[m])].deleted}}

\* Whether the profiling loop skips a VS of this name.
NotInFingerprintDict(n, fp) == n \notin DOMAIN fp

\* ProfileBranch with a denylist of "bokeh" alone.
ProfileBranchBokehOnly(entry, obj) ==
    IF entry[3] = "UnserializableObj" THEN "unserializable"
    ELSE IF obj.has_module /\ obj.module # <<>> /\ Contains(obj.module, StrBokeh)
         THEN "blacklist"
    ELSE "profile"

\* The branch the profiling loop takes for a value with this fingerprint entry.
ProfileBranch(entry, obj) ==
    IF entry[3] = "UnserializableObj" THEN "unserializable"
    ELSE IF /\ obj.has_module
            /\ obj.module # <<>>
            /\ (Contains(obj.module, StrDataprepEda) \/ Contains(obj.module, StrBokeh))
         THEN "blacklist"
    ELSE "profile"

\* profile_variable_size(value): the size-profiling routine's byte count.
profile_variable_size(obj) == Bytes(obj.bytes)

\* The size a branch assigns.
AssignedSize(br, obj) ==
    IF br = "profile" THEN profile_variable_size(obj) ELSE np_inf

\* The position after the k-th iteration of the profiling loop over n VSs.
AfterProfile(k, n) ==
    IF k < n THEN "profile" ELSE IF n = 0 THEN "optimize" ELSE "overlap"

\* for vs_list in graph.variable_snapshots.values(): ... active_vss.add(...)
CollectActive ==
    /\ pc = "start"
    /\ active_vss' = ActiveVss(variable_snapshots)
    /\ order' \in Orders(active_vss')
    /\ i' = 1
    /\ j' = 1
    /\ pc' = AfterProfile(0, Cardinality(active_vss'))
    /\ UNCHANGED <<variable_snapshots, fingerprint_dict, user_ns, elastic_notebook,
                   selector, overlapping_vss, vss_to_migrate, vss_to_recompute,
                   migrate_success, result, branch, examined, calls, writer_args,
                   failed, graph0>>

\* SetSize writing the size to every version of the VS's name.
SetSizeOfEveryVersion(g, vs, size) ==
    [g EXCEPT ![vs.name] = [v \in DOMAIN @ |-> [@[v] EXCEPT !.size = size]]]

\* active_vs.size = size, on the graph that holds the VS.
SetSize(g, vs, size) == [g EXCEPT ![vs.name][vs.version].size = size]

\* One iteration of: for active_vs in active_vss: (size profiling)
ProfileSize ==
    /\ pc = "profile"
    /\ LET vs == order[i]
           n == vs.name
       IN  IF NotInFingerprintDict(n, fingerprint_dict)
           THEN /\ branch' = [branch EXCEPT ![n] = "skip"]
                /\ UNCHANGED variable_snapshots
           ELSE LET br == ProfileBranch(fingerprint_dict[n], user_ns[n])
                IN  /\ branch' = [branch EXCEPT ![n] = br]
                    /\ variable_snapshots' =
                         SetSize(variable_snapshots, vs, AssignedSize(br, user_ns[n]))
    /\ i' = IF i < Len(order) THEN i + 1 ELSE 1
    /\ pc' = AfterProfile(i, Len(order))
    /\ UNCHANGED <<fingerprint_dict, user_ns, elastic_notebook, selector, active_vss,
                   order, j, overlapping_vss, vss_to_migrate, vss_to_recompute,
                   migrate_success, result, examined, calls, writer_args, failed, graph0>>

\* Overlaps without the test that the two VSs differ.
OverlapsWithItself(vs1, vs2, fp) ==
    /\ ~(vs1.name \notin DOMAIN fp \/ vs2.name \notin DOMAIN fp)
    /\ fp[vs1.name][2] \cap fp[vs2.name][2] # {}

\* Whether the overlap loop records the pair (vs1, vs2).
Overlaps(vs1, vs2, fp) ==
    /\ vs1 # vs2
    /\ ~(vs1.name \notin DOMAIN fp \/ vs2.name \notin DOMAIN fp)
    /\ fp[vs1.name][2] \cap fp[vs2.name][2] # {}

\* LastPair leaving the loops at the start of the last row.
LastPairFirstOfRow(k, l, n) == k = n

\* Whether the pair at positions (k, l) is the last of the loop over n VSs.
LastPair(k, l, n) == k = n /\ l = n

\* One iteration of: for active_vs1 in active_vss: for active_vs2 in active_vss:
OverlapPair ==
    /\ pc = "overlap"
    /\ LET vs1 == order[i]
           vs2 == order[j]
       IN  /\ overlapping_vss' =
                IF Overlaps(vs1, vs2, fingerprint_dict)
                THEN Append(overlapping_vss, <<vs1, vs2>>)
                ELSE overlapping_vss
           /\ examined' = examined \cup {<<vs1, vs2>>}
    /\ IF LastPair(i, j, Len(order))
       THEN /\ pc' = "optimize"
            /\ i' = 0
            /\ j' = 0
            /\ order' = <<>>
       ELSE /\ pc' = "overlap"
            /\ i' = IF j < Len(order) THEN i ELSE i + 1
            /\ j' = IF j < Len(order) THEN j + 1 ELSE 1
            /\ order' = order
    /\ UNCHANGED <<variable_snapshots, fingerprint_dict, user_ns, elastic_notebook,
                   selector, active_vss, vss_to_migrate, vss_to_recompute,
                   migrate_success, result, branch, calls, writer_args, failed, graph0>>

\* selector.dependency_graph = graph; selector.active_vss = active_vss; ...
InitializeOptimizer ==
    /\ pc = "optimize"
    /\ selector' = [dependency_graph |-> "graph", active_vss |-> active_vss,
                    overlapping_vss |-> overlapping_vss]
    /\ pc' = "select"
    /\ i' = 0
    /\ j' = 0
    /\ order' = <<>>
    /\ UNCHANGED <<variable_snapshots, fingerprint_dict, user_ns, elastic_notebook,
                   active_vss, overlapping_vss, vss_to_migrate, vss_to_recompute,
                   migrate_success, result, branch, examined, calls, writer_args,
                   failed, graph0>>

\* selector.select_vss(): the sets of VSs the optimizer may return as
\* vss_to_migrate. It answers with one side of a partition of the active VSs it
\* was given; nothing in checkpoint() makes that side respect the overlap
\* constraint or the forced placements.
SelectorResults(sel) == SUBSET sel.active_vss

\* VssToRecompute without the difference.
VssToRecomputeAllActive(active, to_migrate) == active

\* vss_to_recompute = active_vss - vss_to_migrate
VssToRecompute(active, to_migrate) == active \ to_migrate

\* vss_to_migrate, ces_to_recompute = selector.select_vss(...), returning, and
\* the difference that follows. (ces_to_recompute is handed to migrate as it
\* came and is left out of the model.)
SelectVssReturns ==
    /\ pc = "select"
    /\ calls' = [calls EXCEPT !.select_vss = @ + 1]
    /\ \E to_migrate \in SelectorResults(selector) :
          /\ vss_to_migrate' = to_migrate
          /\ vss_to_recompute' = VssToRecompute(active_vss, to_migrate)
    /\ pc' = "update"
    /\ UNCHANGED <<variable_snapshots, fingerprint_dict, user_ns, elastic_notebook,
                   selector, active_vss, order, i, j, overlapping_vss,
                   migrate_success, result, branch, examined, writer_args, failed, graph0>>

\* selector.select_vss(...) raising: checkpoint() has no handler, the
\* exception leaves it.
SelectVssRaises ==
    /\ pc = "select"
    /\ calls' = [calls EXCEPT !.select_vss = @ + 1]
    /\ failed' = "select_vss"
    /\ pc' = "raised"
    /\ UNCHANGED <<variable_snapshots, fingerprint_dict, user_ns, elastic_notebook,
                   selector, active_vss, order, i, j, overlapping_vss, vss_to_migrate,
                   vss_to_recompute, migrate_success, result, branch, examined,
                   writer_args, graph0>>

\* UpdateArguments with the two sets exchanged.
UpdateArgumentsExchanged(to_migrate, to_recompute) == <<to_recompute, to_migrate>>

\* The arguments of update_migration_lists(vss_to_migrate, vss_to_recompute).
UpdateArguments(to_migrate, to_recompute) == <<to_migrate, to_recompute>>

\* elastic_notebook.update_migration_lists(args): the notebook after the
\* call, its two lists replaced by the arguments.
UpdatedNotebook(nb, args) ==
    [nb EXCEPT !.vss_to_migrate = args[1], !.vss_to_recompute = args[2]]

\* if elastic_notebook is not None: elastic_notebook.update_migration_lists(...)
UpdateMigrationLists ==
    /\ pc = "update"
    /\ IF elastic_notebook.present
       THEN /\ elastic_notebook' =
                 UpdatedNotebook(elastic_notebook,
                                 UpdateArguments(vss_to_migrate, vss_to_recompute))
            /\ calls' = [calls EXCEPT !.update_migration_lists = @ + 1]
       ELSE UNCHANGED <<elastic_notebook, calls>>
    /\ pc' = "migrate"
    /\ UNCHANGED <<variable_snapshots, fingerprint_dict, user_ns, selector,
                   active_vss, order, i, j, overlapping_vss, vss_to_migrate,
                   vss_to_recompute, migrate_success, result, branch, examined,
                   writer_args, failed, graph0>>

\* The arguments of the call of migrate().
MigrateArgs ==
    [vss_to_migrate |-> vss_to_migrate, vss_to_recompute |-> vss_to_recompute,
     overlapping_vss |-> selector.overlapping_vss]

\* migrate_success = True; migrate(...), returning. Its value is dropped.
MigrateReturns ==
    /\ pc = "migrate"
    /\ migrate_success' = "True"
    /\ calls' = [calls EXCEPT !.migrate = @ + 1]
    /\ writer_args' = <<MigrateArgs>>
    /\ pc' = "return"
    /\ UNCHANGED <<variable_snapshots, fingerprint_dict, user_ns, elastic_notebook,
                   selector, active_vss, order, i, j, overlapping_vss, vss_to_migrate,
                   vss_to_recompute, result, branch, examined, failed, graph0>>

\* migrate_success = True; migrate(...), raising: checkpoint() has no handler.
MigrateRaises ==
    /\ pc = "migrate"
    /\ migrate_success' = "True"
    /\ calls' = [calls EXCEPT !.migrate = @ + 1]
    /\ writer_args' = <<MigrateArgs>>
    /\ failed' = "migrate"
    /\ pc' = "raised"
    /\ UNCHANGED <<variable_snapshots, fingerprint_dict, user_ns, elastic_notebook,
                   selector, active_vss, order, i, j, overlapping_vss, vss_to_migrate,
                   vss_to_recompute, result, branch, examined, graph0>>

\* return migrate_success
Return ==
    /\ pc = "return"
    /\ result' = migrate_success
    /\ pc' = "done"
    /\ UNCHANGED <<variable_snapshots, fingerprint_dict, user_ns, elastic_notebook,
                   selector, active_vss, order, i, j, overlapping_vss, vss_to_migrate,
                   vss_to_recompute, migrate_success, branch, examined, calls,
                   writer_args, failed, graph0>>

Next ==
    \/ CollectActive
    \/ ProfileSize
    \/ OverlapPair
    \/ InitializeOptimizer
    \/ SelectVssReturns
    \/ SelectVssRaises
    \/ UpdateMigrationLists
    \/ MigrateReturns
    \/ MigrateRaises
    \/ Return

Spec == Init /\ [][Next]_vars

\* ------------------------------------------------------------------ claims

\* The positions at which select_vss has returned.
Selected == pc \in {"update", "migrate", "return", "done"} \/ failed = "migrate"

\* How often x occurs in the list seq.
Count(seq, x) == Cardinality({k \in DOMAIN seq : seq[k] = x})

\* C1. Partition completeness: the two sets migrate() receives cover the
\* active VSs and share no VS.
C1_PartitionComplete ==
    writer_args # <<>> =>
        /\ writer_args[1].vss_to_migrate \cup writer_args[1].vss_to_recompute
             = active_vss
        /\ writer_args[1].vss_to_migrate \cap writer_args[1].vss_to_recompute = {}

C1_Witness ==
    /\ writer_args # <<>>
    /\ writer_args[1].vss_to_migrate # {}
    /\ writer_args[1].vss_to_recompute # {}

\* The optimizer's result splits an overlapping pair.
SplitsOverlap ==
    \E k \in DOMAIN overlapping_vss :
        (overlapping_vss[k][1] \in vss_to_migrate)
            # (overlapping_vss[k][2] \in vss_to_migrate)

\* The optimizer's result breaks a forced placement.
BreaksForcedPlacement ==
    \/ \E vs \in vss_to_migrate : Field(vs).size = np_inf
    \/ \E vs \in vss_to_recompute : Field(vs).size # np_inf /\ ~Field(vs).edge

\* C2. Rejection before writing: a result of the optimizer that violates the
\* overlap constraint or a forced placement never reaches migrate().
C2_RejectedBeforeWriting ==
    (Selected /\ (SplitsOverlap \/ BreaksForcedPlacement)) => calls.migrate = 0

\* The versions of name n that are not marked deleted.
LiveVersions(n) ==
    {v \in 1..Len(variable_snapshots[n]) : ~variable_snapshots[n][v].deleted}

\* The greatest element of a non-empty set of numbers.
Max(S) == CHOOSE m \in S : \A k \in S : k <= m

\* C3 as stated. Active-set selection: the active set holds, for each name with
\* a version that is not deleted, the most recent such version, and no other
\* VS.
C3_MostRecentNotDeleted ==
    pc # "start" =>
        active_vss =
            {Ref(n, Max(LiveVersions(n))) : n \in {m \in Names : LiveVersions(m) # {}}}

\* C3 as amended. Active-set selection: the active set holds the latest
\* version of each name whose latest version is not deleted, and no other VS;
\* a name whose latest version is deleted has no active VS, whatever its
\* earlier versions are.
C3_LatestUnlessDeleted ==
    pc # "start" =>
        /\ \A n \in Names :
             LET last == Len(variable_snapshots[n])
             IN  IF variable_snapshots[n][last].deleted
                 THEN \A vs \in active_vss : vs.name # n
                 ELSE \A vs \in AllRefs :
                         vs.name = n => (vs \in active_vss <=> vs.version = last)
        /\ active_vss \subseteq GraphRefs

C3_Witness ==
    /\ pc # "start"
    /\ active_vss # {}
    /\ \E n \in Names :
         /\ Len(variable_snapshots[n]) >= 2
         /\ variable_snapshots[n][Len(variable_snapshots[n])].deleted
         /\ LiveVersions(n) # {}

\* Two distinct active VSs, both in the fingerprint table, whose
\* storage-region identifiers intersect.
SharesStorage(vs1, vs2) ==
    /\ vs1 # vs2
    /\ vs1.name \in DOMAIN fingerprint_dict
    /\ vs2.name \in DOMAIN fingerprint_dict
    /\ \E r \in fingerprint_dict[vs1.name][2] : r \in fingerprint_dict[vs2.name][2]

\* How often the list handed to the selector holds vs1 and vs2, in either
\* order.
CountUnordered(vs1, vs2) ==
    Cardinality({k \in DOMAIN selector.overlapping_vss :
                    {selector.overlapping_vss[k][1], selector.overlapping_vss[k][2]}
                        = {vs1, vs2}})

\* C4 as stated. Overlap relation: the list handed to the selector records
\* each unordered pair of distinct active VSs that share storage once, and
\* nothing else.
C4_UnorderedPairsOnce ==
    calls.select_vss > 0 =>
        \A vs1, vs2 \in active_vss :
            CountUnordered(vs1, vs2) = IF SharesStorage(vs1, vs2) THEN 1 ELSE 0

\* C4 as amended. Overlap relation: the list handed to the selector records
\* each ordered pair (vs1, vs2) of distinct active VSs that share storage
\* exactly once, so each unordered pair twice, once in each order; it records
\* no pair (vs, vs), no pair with a VS missing from the fingerprint table and
\* nothing that is not a pair of active VSs.
C4_OrderedPairsOnce ==
    calls.select_vss > 0 =>
        /\ \A vs1, vs2 \in active_vss :
             Count(selector.overlapping_vss, <<vs1, vs2>>)
                 = IF SharesStorage(vs1, vs2) THEN 1 ELSE 0
        /\ \A k \in DOMAIN selector.overlapping_vss :
             /\ selector.overlapping_vss[k][1] \in active_vss
             /\ selector.overlapping_vss[k][2] \in active_vss

C4_Witness ==
    /\ calls.select_vss > 0
    /\ \E vs1, vs2 \in active_vss :
         /\ SharesStorage(vs1, vs2)
         /\ Count(selector.overlapping_vss, <<vs1, vs2>>) = 1
         /\ Count(selector.overlapping_vss, <<vs2, vs1>>) = 1

\* The module tags of the session's values that are on the denylist.
DeniedModules == {ModBokehIo, ModDataprepEda}

\* C5. Size assignment: when select_vss is invoked, an active VS in the
\* fingerprint table has size +infinity if its fingerprint object is
\* unserializable (decided first) or its value's module is denylisted, and
\* neither was measured; every other has the size the profiling routine
\* measured.
C5_SizeAssignment ==
    pc = "select" =>
        \A vs \in active_vss :
            vs.name \in DOMAIN fingerprint_dict =>
                LET entry == fingerprint_dict[vs.name]
                    obj == user_ns[vs.name]
                    denied == obj.has_module /\ obj.module \in DeniedModules
                IN  /\ entry[3] = "UnserializableObj" =>
                          /\ Field(vs).size = np_inf
                          /\ branch[vs.name] = "unserializable"
                    /\ (entry[3] # "UnserializableObj" /\ denied) =>
                          /\ Field(vs).size = np_inf
                          /\ branch[vs.name] = "blacklist"
                    /\ (entry[3] # "UnserializableObj" /\ ~denied) =>
                          /\ Field(vs).size = [inf |-> FALSE, bytes |-> obj.bytes]
                          /\ branch[vs.name] = "profile"

C5_Witness ==
    /\ pc = "select"
    /\ \E vs \in active_vss :
         /\ branch[vs.name] = "unserializable"
         /\ user_ns[vs.name].module = ModBokehIo
    /\ \E vs \in active_vss :
         /\ branch[vs.name] = "blacklist"
         /\ user_ns[vs.name].module = ModDataprepEda

\* C6. Missing fingerprint entry: an active VS whose name is missing from the
\* fingerprint table does not stop the call before the optimizer, keeps the
\* size it had, is in no recorded overlap and, when it has a producing edge,
\* is not among the VSs migrate() is told to migrate. The last part is stated
\* for the results of the optimizer that respect the overlap constraint and
\* the forced placements, the only ones the claim can be about.
C6_MissingEntryRecomputed ==
    \A x \in active_vss :
        x.name \notin DOMAIN fingerprint_dict =>
            /\ (pc \in {"done", "raised"} => calls.select_vss = 1)
            /\ Field(x).size = graph0[x.name][x.version].size
            /\ \A k \in DOMAIN overlapping_vss :
                 x # overlapping_vss[k][1] /\ x # overlapping_vss[k][2]
            /\ (/\ writer_args # <<>>
                /\ Field(x).edge
                /\ ~SplitsOverlap
                /\ ~BreaksForcedPlacement)
                   => x \notin writer_args[1].vss_to_migrate

\* C7. Failure status: a call in which the optimizer or the writer failed
\* hands its caller a failed status as its return value.
C7_FailureStatus ==
    failed # "none" => result = "False"

\* C8. Frame condition on the graph: a call leaves the names, the version
\* lists and every field of every VS but size as it found them, and changes
\* the size of active VSs with a fingerprint entry only.
C8_GraphFrame ==
    /\ DOMAIN variable_snapshots = DOMAIN graph0
    /\ \A n \in DOMAIN graph0 :
         /\ Len(variable_snapshots[n]) = Len(graph0[n])
         /\ \A v \in 1..Len(graph0[n]) :
              LET now == variable_snapshots[n][v]
                  old == graph0[n][v]
              IN  /\ now.name = old.name
                  /\ now.version = old.version
                  /\ now.deleted = old.deleted
                  /\ now.edge = old.edge
                  /\ now.size # old.size =>
                        /\ v = Len(graph0[n])
                        /\ ~old.deleted
                        /\ n \in DOMAIN fingerprint_dict

C8_Witness ==
    /\ pc = "done"
    /\ \E n \in Names :
         /\ Len(graph0[n]) >= 2
         /\ variable_snapshots[n][Len(graph0[n])].size # graph0[n][Len(graph0[n])].size
    /\ \E n \in Names :
         /\ ~graph0[n][Len(graph0[n])].deleted
         /\ n \notin DOMAIN fingerprint_dict

\* C9. Stage ordering: select_vss is invoked once, after the profiling loop
\* has visited every active VS and the overlap loop every ordered pair of
\* them, with the selector holding the graph, the active set and the overlap
\* list of this call; migrate() is invoked at most once, after select_vss
\* returned.
C9_StageOrdering ==
    /\ calls.select_vss <= 1
    /\ calls.migrate <= 1
    /\ (pc = "select" \/ calls.select_vss = 1) =>
          /\ \A vs \in active_vss : branch[vs.name] # "none"
          /\ examined = active_vss \X active_vss
          /\ selector = [dependency_graph |-> "graph", active_vss |-> active_vss,
                         overlapping_vss |-> overlapping_vss]
    /\ pc \in {"start", "profile", "overlap", "optimize", "select"} =>
          calls.select_vss = 0
    /\ pc \in {"update", "migrate", "return", "done", "raised"} =>
          calls.select_vss = 1
    /\ calls.migrate = 1 => (calls.select_vss = 1 /\ failed # "select_vss")
    /\ failed = "select_vss" => calls.migrate = 0

C9_Witness ==
    /\ pc = "return"
    /\ calls.migrate = 1
    /\ Cardinality(active_vss) >= 2
    /\ selector.overlapping_vss # <<>>

\* C10. With a notebook, update_migration_lists is called once, with
\* vss_to_migrate and the rest of the active set, after select_vss returned
\* and before migrate() is invoked; when migrate() then fails the notebook
\* keeps the new lists. With no notebook it is never called.
C10_ListsUpdatedBeforeMigrate ==
    /\ calls.update_migration_lists <= 1
    /\ ~elastic_notebook.present => calls.update_migration_lists = 0
    /\ ~Selected => calls.update_migration_lists = 0
    /\ pc = "update" => calls.update_migration_lists = 0 /\ calls.migrate = 0
    /\ elastic_notebook.present =>
          /\ (pc \in {"migrate", "return", "done"} \/ calls.migrate = 1) =>
                /\ calls.update_migration_lists = 1
                /\ elastic_notebook.vss_to_migrate = vss_to_migrate
                /\ elastic_notebook.vss_to_recompute
                     = {vs \in active_vss : vs \notin vss_to_migrate}
          /\ writer_args # <<>> =>
                /\ elastic_notebook.vss_to_migrate = writer_args[1].vss_to_migrate
                /\ elastic_notebook.vss_to_recompute = writer_args[1].vss_to_recompute

C10_Witness ==
    /\ failed = "migrate"
    /\ elastic_notebook.present
    /\ elastic_notebook.vss_to_migrate # {}
    /\ elastic_notebook.vss_to_recompute # {}
    /\ Ref("a", 1) \notin elastic_notebook.vss_to_migrate

====
